---------------------------- MODULE Spec2Model ----------------------------
(***************************************************************************)
(* Verification model of the spin-qubit simulator                          *)
(* (rvraghav2000/Quantum_Design_Group_7).                                  *)
(*                                                                         *)
(* Numbers.  The program computes with IEEE doubles.  The model computes   *)
(* with fixed-point integers: a real x is the integer round(x * SCALE).    *)
(* Every product is rounded back to that resolution the way every double   *)
(* operation is rounded to 2^-52, so the model has the program's rounding  *)
(* noise, at a coarser grain.  Squared magnitudes (probabilities) are kept *)
(* exactly, in units of 1/SCALE^2.  Quantities that double arithmetic      *)
(* resolves and the model does not (1e-10, 1e-12) become 0.                *)
(* The non-finite doubles are reserved integers: NaN, PosInf.  The         *)
(* JavaScript values undefined and null are reserved integers as well.     *)
(*                                                                         *)
(* Units.  dt: milliseconds.  TIME_SCALE: nanoseconds.  simDt = dt *       *)
(* TIME_SCALE: picoseconds.  Frequencies: MHz.  Fields: 0.01 T.  Angles:   *)
(* radians, fixed point.  Time constants T1, T2: decimal floating point    *)
(* [m, e] meaning m * 10^e seconds.                                        *)
(***************************************************************************)
EXTENDS Integers, Sequences, FiniteSets, TLC

\* Fixed-point resolution: a real x is stored as round(x * SCALE).
SCALE == 1000

\* Reserved integers for the values that are not finite numbers.
Reserved == 2^30
NaN == 0 - Reserved
PosInf == Reserved
Undefined == 0 - Reserved - 1
Null == 0 - Reserved - 2

IsFinite(x) == x > NaN /\ x < PosInf

\* n / d rounded to the nearest integer (d > 0).
RDiv(n, d) == (2 * n + d) \div (2 * d)

Abs(n) == IF n < 0 THEN 0 - n ELSE n

-----------------------------------------------------------------------------
(* Double arithmetic on fixed-point numbers; NaN propagates.               *)

FAdd(x, y) == IF x = NaN \/ y = NaN THEN NaN ELSE x + y
FSub(x, y) == IF x = NaN \/ y = NaN THEN NaN ELSE x - y
FMul(x, y) == IF x = NaN \/ y = NaN THEN NaN ELSE RDiv(x * y, SCALE)
FNeg(x) == IF x = NaN THEN NaN ELSE 0 - x
\* x > y of JavaScript: false when either side is NaN.
FGt(x, y) == x # NaN /\ y # NaN /\ x > y
FLt(x, y) == x # NaN /\ y # NaN /\ x < y

\* Newton's iteration for the integer square root, from a guess x >= sqrt(n).
RECURSIVE SqrtNewton(_, _)
SqrtNewton(n, x) ==
    LET y == (x + n \div x) \div 2
    IN  IF y >= x THEN x ELSE SqrtNewton(n, y)

\* Integer square root, rounded to nearest.
ISqrt(n) ==
    IF n = 0 THEN 0
    ELSE LET f == SqrtNewton(n, IF n <= SCALE * SCALE THEN SCALE
                                ELSE n \div SCALE + 1)
         IN  IF n - f * f > f THEN f + 1 ELSE f

\* Math.sqrt of a squared magnitude (units 1/SCALE^2), result in 1/SCALE.
\* Math.sqrt of NaN or of a negative number is NaN.
SqrtP(p) == IF p = NaN \/ p < 0 THEN NaN ELSE ISqrt(p)

\* Math.PI / 2, Math.PI and 2 * Math.PI (pi ~ 355/113).
HALF_PI == RDiv(355 * SCALE, 226)
PI_FX == 2 * HALF_PI
TWO_PI == 2 * PI_FX

\* Sum of the Taylor series whose current term is term (of order k) and
\* whose next term is -term * x^2 / ((k+1)(k+2)); 0 <= x <= pi/2.
RECURSIVE TaylorSum(_, _, _, _)
TaylorSum(x, k, term, acc) ==
    IF term = 0 THEN acc
    ELSE LET next == 0 - RDiv(RDiv(term * x, SCALE) * x,
                              SCALE * (k + 1) * (k + 2))
         IN  TaylorSum(x, k + 2, next, acc + term)

\* cos and sin on [0, pi/2], tabulated once (@@ builds the table).
CosTab == [x \in 0..HALF_PI |-> TaylorSum(x, 0, SCALE, 0)] @@ <<>>
SinTab == [x \in 0..HALF_PI |-> TaylorSum(x, 1, x, 0)] @@ <<>>
CosQ(x) == CosTab[x]
SinQ(x) == SinTab[x]

\* Math.cos, Math.sin: NaN for a non-finite argument.
Cos(x) ==
    IF ~IsFinite(x) THEN NaN
    ELSE LET y == x % TWO_PI
             z == IF y > PI_FX THEN TWO_PI - y ELSE y
         IN  IF z > HALF_PI THEN 0 - CosQ(PI_FX - z) ELSE CosQ(z)

Sin(x) ==
    IF ~IsFinite(x) THEN NaN
    ELSE LET y == x % TWO_PI
             neg == y > PI_FX
             z == IF neg THEN y - PI_FX ELSE y
             s == IF z > HALF_PI THEN SinQ(PI_FX - z) ELSE SinQ(z)
         IN  IF neg THEN 0 - s ELSE s

\* Math.exp(-r) for r >= 0: alternating series for r <= 1, squaring above.
RECURSIVE ExpSeries(_, _, _, _)
ExpSeries(r, k, term, acc) ==
    IF term = 0 THEN acc
    ELSE ExpSeries(r, k + 1, 0 - RDiv(term * r, SCALE * (k + 1)), acc + term)

RECURSIVE ExpNeg(_)
ExpNeg(r) ==
    IF r = NaN THEN NaN
    ELSE IF r = PosInf THEN 0
    ELSE IF r <= SCALE THEN ExpSeries(r, 0, SCALE, 0)
    ELSE IF r > 16 * SCALE THEN 0   \* e^-16 is below the resolution
    ELSE RDiv(ExpNeg(r \div 2) * ExpNeg(r - r \div 2), SCALE)

\* Largest t in lo..hi with y * cos t - x * sin t >= 0 (x, y >= 0): the
\* angle of the point (x, y) of the first quadrant.
RECURSIVE AngleSearch(_, _, _, _)
AngleSearch(x, y, lo, hi) ==
    IF lo >= hi THEN lo
    ELSE LET mid == (lo + hi + 1) \div 2
         IN  IF y * CosQ(mid) - x * SinQ(mid) >= 0
             THEN AngleSearch(x, y, mid, hi)
             ELSE AngleSearch(x, y, lo, mid - 1)

\* Math.atan2(y, x), in (-pi, pi]; NaN if an argument is NaN.  The sign of
\* a zero is not modelled: atan2(0, 0) = 0.
Atan2(y, x) ==
    IF x = NaN \/ y = NaN THEN NaN
    ELSE LET t == IF y = 0 THEN 0
                  ELSE IF x = 0 THEN HALF_PI
                  ELSE AngleSearch(Abs(x), Abs(y), 0, HALF_PI)
         IN  IF x >= 0 THEN (IF y >= 0 THEN t ELSE 0 - t)
             ELSE (IF y >= 0 THEN PI_FX - t ELSE t - PI_FX)

\* Smallest t in lo..hi with cos t <= c.
RECURSIVE AcosSearch(_, _, _)
AcosSearch(c, lo, hi) ==
    IF lo >= hi THEN lo
    ELSE LET mid == (lo + hi) \div 2
         IN  IF CosQ(mid) <= c THEN AcosSearch(c, lo, mid)
             ELSE AcosSearch(c, mid + 1, hi)

\* Math.acos(c) for c <= 1; NaN for NaN.
Acos(c) ==
    IF c = NaN THEN NaN
    ELSE IF c >= SCALE THEN 0
    ELSE IF c <= 0 THEN HALF_PI
    ELSE AcosSearch(c, 0, HALF_PI)

\* Math.min(1, x), Math.max(0, x): NaN if x is NaN.
Min1(x, one) == IF x = NaN THEN NaN ELSE IF x < one THEN x ELSE one
Max0(x) == IF x = NaN THEN NaN ELSE IF x > 0 THEN x ELSE 0

-----------------------------------------------------------------------------
(* Decimal floating point, for the quantities of decoherence.js whose      *)
(* range (1e-10 .. 1e8) no fixed point holds: [m, e] is m * 10^e, with a   *)
(* four-digit mantissa, 1000 <= |m| <= 9999, or m = 0.                     *)

RECURSIVE DNorm(_, _)
DNorm(n, e) ==
    IF n = 0 THEN [m |-> 0, e |-> 0]
    ELSE IF Abs(n) >= 10000 THEN DNorm(RDiv(n, 10), e + 1)
    ELSE IF Abs(n) < 1000 THEN DNorm(n * 10, e - 1)
    ELSE [m |-> n, e |-> e]

DInt(n) == DNorm(n, 0)
DMul(a, b) == DNorm(a.m * b.m, a.e + b.e)
DDiv(a, b) == DNorm(RDiv(a.m * 100000, b.m), a.e - b.e - 5)
\* a + b for a, b >= 0: the smaller one is dropped once it is below the
\* last digit of the larger.
DAdd(a, b) ==
    IF a.m = 0 THEN b
    ELSE IF b.m = 0 THEN a
    ELSE LET hi == IF a.e >= b.e THEN a ELSE b
             lo == IF a.e >= b.e THEN b ELSE a
             d == hi.e - lo.e
         IN  IF d >= 5 THEN hi ELSE DNorm(hi.m * 10^d + lo.m, lo.e)
\* a < b for a, b >= 0.
DLt(a, b) ==
    IF a.m = 0 THEN b.m > 0
    ELSE IF b.m = 0 THEN FALSE
    ELSE IF a.e # b.e THEN a.e < b.e
    ELSE a.m < b.m
\* Math.min returning its first argument, and returning its second.
DMinFirst(a, b) == a
DMinSecond(a, b) == b
DMin(a, b) == IF DLt(b, a) THEN b ELSE a
DMax(a, b) == IF DLt(a, b) THEN b ELSE a
RECURSIVE DPow(_, _)
DPow(a, n) == IF n = 0 THEN DInt(1) ELSE DMul(a, DPow(a, n - 1))

\* The fixed-point number round(a * SCALE), for 0 <= a < 10^5.
DToFx(a) ==
    LET k == a.e
    IN  IF k >= 0 THEN a.m * 10^k * SCALE
        ELSE RDiv(a.m * SCALE, 10^(0 - k))
\* The decimal of a fixed-point number.
DFromFx(x) == DDiv(DInt(x), DInt(SCALE))

\* ln 10
LN10 == RDiv(23026 * SCALE, 10000)

\* Math.exp(-x) for a decimal 0 <= x <= 500, as a decimal:
\* exp(-x) = 10^-n * exp(-r) with x = n ln 10 + r.
DExpNeg(x) ==
    LET fx == DToFx(x)
        n == fx \div LN10
        r == fx % LN10
        z == DFromFx(ExpNeg(r))
    IN  IF z.m = 0 THEN z ELSE [m |-> z.m, e |-> z.e - n]

\* Largest r in lo..hi with exp(-r) >= y, for 0 < y <= 1: -ln y.
RECURSIVE LnSearch(_, _, _)
LnSearch(y, lo, hi) ==
    IF lo >= hi THEN lo
    ELSE LET mid == (lo + hi + 1) \div 2
         IN  IF ExpNeg(mid) >= y THEN LnSearch(y, mid, hi)
             ELSE LnSearch(y, lo, mid - 1)

\* Math.log10(x) of a decimal x > 0, in fixed point: the exponent of x
\* plus ln(mantissa) / ln 10; NaN for NaN.
Log10(x) ==
    IF x.m = NaN THEN NaN
    ELSE (x.e + 3) * SCALE
         + RDiv(LnSearch(RDiv(SCALE * 1000, x.m), 0, LN10) * SCALE, LN10)

-----------------------------------------------------------------------------
(* decoherence.js                                                          *)

\* Physical constants.
KB == [m |-> 1381, e |-> -26]
MU_B == [m |-> 9274, e |-> -27]
G_FACTOR == DInt(2)
\* Reference values.
T1_REF == DInt(6)
T2_REF == [m |-> 2800, e |-> -5]
T_REF == [m |-> 2000, e |-> -5]
T2STAR_REF == [m |-> 1200, e |-> -7]
\* The elementary charge 1.602e-19 of the unit conversions.
EV == [m |-> 1602, e |-> -22]

\* computePhysics(): the derived quantities for a temperature t (mK, an
\* integer) and a field b (0.01 T).
DNaN == [m |-> NaN, e |-> 0]
computePhysics(t, b) ==
    IF b = NaN
    THEN \* every quantity below depends on Bfield, directly or through
         \* Math.min / Math.max of a NaN
         [T1 |-> DNaN, T2 |-> DNaN, T2star |-> DNaN,
          thermalExcitation |-> NaN, zeemanSplitting |-> DNaN]
    ELSE
    LET T_kelvin == DNorm(t, -3)
        T_k == DMax(T_kelvin, [m |-> 1000, e |-> -6])
        Bfield == DNorm(b, -2)
        zeemanSplitting == DMul(DMul(G_FACTOR, MU_B), Bfield)
        ratio_T == DDiv(T_k, T_REF)
        rate_johnson == DMul(DDiv(DInt(1), T1_REF), ratio_T)
        rate_direct == DMul(DMul([m |-> 1000, e |-> -6], ratio_T),
                            DPow(Bfield, 4))
        rate_raman == DMul([m |-> 1000, e |-> -11], DPow(ratio_T, 7))
        deltaE_valley == DMul([m |-> 1000, e |-> -7], EV)
        \* minus orbach_exp
        orbach == DDiv(deltaE_valley, DMul(KB, T_k))
        rate_orbach == IF DLt(orbach, DInt(500))
                       THEN DMul(DInt(1000), DExpNeg(orbach))
                       ELSE DInt(0)
        total_rate_T1 == DAdd(DAdd(DAdd(rate_johnson, rate_direct),
                                   rate_raman), rate_orbach)
        T1 == DMin(DInt(100),
                   DMax([m |-> 1000, e |-> -12],
                        DDiv(DInt(1), total_rate_T1)))
        T2_phonon == DMul(T2_REF, DPow(DDiv(T_REF, T_k), 3))
        T2_bound == DMul(DInt(2), T1)
        T2 == DMax([m |-> 1000, e |-> -12], DMin(T2_phonon, T2_bound))
        T2star_phonon == DMul(T2STAR_REF, DPow(DDiv(T_REF, T_k), 1))
        T2star == DMax([m |-> 1000, e |-> -13], DMin(T2star_phonon, T2))
        beta_ == DDiv(zeemanSplitting, DMul(KB, T_k))
        en == ExpNeg(DToFx(beta_))
        thermalExcitation == IF DLt(DInt(500), beta_) THEN 0
                             ELSE RDiv(en * SCALE, SCALE + en)
    IN  [T1 |-> T1, T2 |-> T2, T2star |-> T2star,
         thermalExcitation |-> thermalExcitation,
         zeemanSplitting |-> zeemanSplitting]

-----------------------------------------------------------------------------
(* spinPhysics.js: constants and state.                                    *)

\* gamma / 2 pi in MHz/T (28.024e9 Hz/T).
GYROMAGNETIC_RATIO == 28024
\* Pulse amplitude B1_max = 0.1 T, in 0.01 T; never reassigned.
B1_max == 10
\* Simulation timescale TIME_SCALE = 50e-9 s, in ns.
TIME_SCALE == 50
\* The thresholds 1e-10 (normalize) and 1e-12 (applyDecoherence) at the
\* model's resolution.
NORM_EPS == 0
PROB_EPS == 0
\* The squared magnitude 1, the probability 1.
ONE_P == SCALE * SCALE

\* Bounds of the exploration.
MaxCalls == 3

VARIABLES
    alpha, beta,        \* complex amplitudes [re, im] of |0> and |1>
    Bz,                 \* static field, 0.01 T
    larmorFreq,         \* MHz
    rabiFreq,           \* MHz
    gateLog,            \* sequence of gate-log entries
    calls,              \* number of calls made so far
    last,               \* the most recent call: arguments, result, pre-state
    prev,               \* the call before it
    \* decoherence.js
    temperature,        \* mK
    Bfield,             \* 0.01 T
    T1, T2, T2star,     \* s, decimals
    thermalExcitation,  \* fixed point
    zeemanSplitting,    \* J, decimal
    \* the callers: main.js, pulseController.js
    pc,                 \* where the running task stands; "idle" between tasks
    task,               \* the task that made the most recent engine call
    loops,              \* the animation loops that have run a frame
    queue,              \* requests of runCircuit waiting for their timers
    sv,                 \* the object getStateVector() returned last
    \* the page: StageManager of main.js, PulseController, the buttons
    page,
    \* handTracking.js
    hand,
    \* the frame of animate() that is running
    tick,
    \* the timers of runCircuit()
    run

spinVars == <<alpha, beta, Bz, larmorFreq, rabiFreq, gateLog>>
histVars == <<calls, last, prev>>
decoVars == <<temperature, Bfield, T1, T2, T2star, thermalExcitation,
              zeemanSplitting>>
callerVars == <<pc, task, loops, queue, sv>>
pageVars == <<page, hand, tick, run>>
vars == <<alpha, beta, Bz, larmorFreq, rabiFreq, gateLog, calls, last, prev,
          temperature, Bfield, T1, T2, T2star, thermalExcitation,
          zeemanSplitting,
         pc, task, loops, queue, sv, page, hand, tick, run>>

\* Complex arithmetic.
C(re, im) == [re |-> re, im |-> im]
cmul(a, b) == C(FSub(FMul(a.re, b.re), FMul(a.im, b.im)),
                FAdd(FMul(a.re, b.im), FMul(a.im, b.re)))
cadd(a, b) == C(FAdd(a.re, b.re), FAdd(a.im, b.im))
csub(a, b) == C(FSub(a.re, b.re), FSub(a.im, b.im))
cscale(a, s) == C(FMul(a.re, s), FMul(a.im, s))
\* Squared magnitude, exact, in units of 1/SCALE^2.
cnorm2(a) == IF a.re = NaN \/ a.im = NaN THEN NaN
             ELSE a.re * a.re + a.im * a.im
cexp(theta) == C(Cos(theta), Sin(theta))

KET0 == C(SCALE, 0)
ZERO == C(0, 0)

\* dt * TIME_SCALE, in ps.
SimDt(dt) == IF IsFinite(dt) THEN dt * TIME_SCALE ELSE dt

\* GYROMAGNETIC_RATIO * b for a field b in 0.01 T, in MHz.
FreqOf(b) == IF IsFinite(b) THEN RDiv(GYROMAGNETIC_RATIO * b, 100) ELSE b

\* pi * freq * simDt: half of the rotation angle 2 pi freq simDt.
HalfAngle(freq, simDt) ==
    IF freq = NaN \/ simDt = NaN THEN NaN
    ELSE IF ~IsFinite(freq) \/ ~IsFinite(simDt) THEN PosInf
    ELSE RDiv(PI_FX * RDiv(freq * simDt, 1000), 1000)

\* normalize() with the rescaling left out.
normalizeSkipped(a, b) == <<a, b>>

\* normalize(): the pair after rescaling, unchanged when the norm is not
\* above 1e-10 (or is NaN).
normalize(a, b) ==
    LET norm == SqrtP(FAdd(cnorm2(a), cnorm2(b)))
    IN  IF FGt(norm, NORM_EPS)
        THEN LET inv == RDiv(SCALE * SCALE, norm)
             IN  <<cscale(a, inv), cscale(b, inv)>>
        ELSE <<a, b>>

getP0(a) == cnorm2(a)
getP1(b) == cnorm2(b)

\* The two while loops of getBlochAngles.
RECURSIVE WrapUp(_)
WrapUp(phi) == IF FLt(phi, 0) THEN WrapUp(phi + TWO_PI) ELSE phi
RECURSIVE WrapDown(_)
WrapDown(phi) == IF phi # NaN /\ phi >= TWO_PI THEN WrapDown(phi - TWO_PI)
                 ELSE phi

getBlochAngles(a, b) ==
    LET p1 == getP1(b)
        root == SqrtP(FSub(ONE_P, p1))
        theta == LET t == Acos(Min1(root, SCALE))
                 IN  IF t = NaN THEN NaN ELSE 2 * t
        phaseAlpha == Atan2(a.im, a.re)
        phaseBeta == Atan2(b.im, b.re)
        phi == WrapDown(WrapUp(FSub(phaseBeta, phaseAlpha)))
    IN  [theta |-> theta, phi |-> phi]

-----------------------------------------------------------------------------
(* Gates.                                                                  *)

GateIds == {"X", "Y", "Z", "H", "S", "T", "Rx", "Ry", "Rz"}
Rotations == {"Rx", "Ry", "Rz"}

\* JavaScript falsiness of a gate parameter.
Falsy(v) == v \in {Undefined, Null, NaN, 0}

\* (param || Math.PI / 2) / 2
RotHalf(param) ==
    LET v == IF Falsy(param) THEN HALF_PI ELSE param
    IN  IF IsFinite(v) THEN RDiv(v, 2) ELSE v

\* param || null
LoggedParam(param) == IF Falsy(param) THEN Null ELSE param

\* 1 / Math.sqrt(2)
S2 == RDiv(SCALE * SCALE, ISqrt(2 * SCALE * SCALE))

\* Case 'X' assigning beta to both amplitudes; case 'H' with the minus sign
\* of its second row lost.
GateXCopied(a, b) == <<b, b>>
GateHUnsigned(a, b) == <<cscale(cadd(a, b), S2), cscale(cadd(a, b), S2)>>

\* The cases of the switch of applyGate: <<newAlpha, newBeta>>.
GateX(a, b) == <<b, a>>
GateY(a, b) == <<cmul(C(0, 0 - SCALE), b), cmul(C(0, SCALE), a)>>
GateZ(a, b) == <<a, cscale(b, 0 - SCALE)>>
GateH(a, b) == <<cscale(cadd(a, b), S2), cscale(csub(a, b), S2)>>
GateS(a, b) == <<a, cmul(C(0, SCALE), b)>>
GateT(a, b) == <<a, cmul(cexp(RDiv(PI_FX, 4)), b)>>
GateRx(t, a, b) ==
    <<cadd(cscale(a, Cos(t)), cmul(C(0, FNeg(Sin(t))), b)),
      cadd(cmul(C(0, FNeg(Sin(t))), a), cscale(b, Cos(t)))>>
GateRy(t, a, b) ==
    <<cadd(cscale(a, Cos(t)), cscale(b, FNeg(Sin(t)))),
      cadd(cscale(a, Sin(t)), cscale(b, Cos(t)))>>
GateRz(t, a, b) ==
    <<cmul(cexp(IF IsFinite(t) THEN 0 - t ELSE t), a), cmul(cexp(t), b)>>

\* The switch of applyGate, for a known gate.
GateMatrix(gateName, param, a, b) ==
    CASE gateName = "X" -> GateX(a, b)
      [] gateName = "Y" -> GateY(a, b)
      [] gateName = "Z" -> GateZ(a, b)
      [] gateName = "H" -> GateH(a, b)
      [] gateName = "S" -> GateS(a, b)
      [] gateName = "T" -> GateT(a, b)
      [] gateName = "Rx" -> GateRx(RotHalf(param), a, b)
      [] gateName = "Ry" -> GateRy(RotHalf(param), a, b)
      [] gateName = "Rz" -> GateRz(RotHalf(param), a, b)

\* The entry applyGate pushes; the time stamp (Date.now()) is left out.
GateEntry(gateName, param, a, b) ==
    [gate |-> gateName, param |-> LoggedParam(param),
     stateAfter |-> [p0 |-> getP0(a), p1 |-> getP1(b),
                     theta |-> getBlochAngles(a, b).theta,
                     phi |-> getBlochAngles(a, b).phi]]

\* The entry measure pushes.
MeasureEntry(result, a, b) ==
    [gate |-> "MEASURE", result |-> result,
     stateAfter |-> [p0 |-> getP0(a), p1 |-> getP1(b)]]

\* The record of a call, taken before the call changes the state.
Call(op, args, result) ==
    [op |-> op, args |-> args, result |-> result,
     alpha |-> alpha, beta |-> beta, log |-> gateLog]

NoCall == [op |-> "none", args |-> <<>>, result |-> Undefined,
           alpha |-> KET0, beta |-> ZERO, log |-> <<>>]

Record(op, args, result) ==
    /\ calls < MaxCalls
    /\ calls' = calls + 1
    /\ last' = Call(op, args, result)
    /\ prev' = last

\* applyGate with the default case falling through to the assignments and
\* the push instead of returning.
applyGateFallThrough(gateName, param) ==
    /\ Record("applyGate", [gate |-> gateName, param |-> param], Undefined)
    /\ \E m \in {IF gateName \in GateIds
                  THEN GateMatrix(gateName, param, alpha, beta)
                  ELSE <<alpha, beta>>} :
       \E n \in {normalize(m[1], m[2])} :
           /\ alpha' = n[1]
           /\ beta' = n[2]
           /\ gateLog' = Append(gateLog,
                                GateEntry(gateName, param, n[1], n[2]))
    /\ UNCHANGED <<Bz, larmorFreq, rabiFreq, decoVars>>

applyGate(gateName, param) ==
    /\ Record("applyGate", [gate |-> gateName, param |-> param], Undefined)
    /\ IF gateName \in GateIds
       THEN \E m \in {GateMatrix(gateName, param, alpha, beta)} :
            \E n \in {normalize(m[1], m[2])} :
                /\ alpha' = n[1]
                /\ beta' = n[2]
                /\ gateLog' = Append(gateLog,
                                     GateEntry(gateName, param, n[1], n[2]))
       ELSE UNCHANGED <<alpha, beta, gateLog>>
    /\ UNCHANGED <<Bz, larmorFreq, rabiFreq, decoVars>>

\* The comparison of measure written <=; the collapse with its branches
\* exchanged.
OutcomeInclusive(rand, p1) == IF rand * SCALE <= p1 THEN 1 ELSE 0
CollapseExchanged(result) ==
    IF result = 0 THEN <<ZERO, KET0>> ELSE <<KET0, ZERO>>

\* Math.random() < p1 ? 1 : 0, rand being the value Math.random() returns,
\* in [0, 1).
Outcome(rand, p1) == IF FLt(rand * SCALE, p1) THEN 1 ELSE 0

\* The collapse: <<alpha, beta>> for a result.
Collapse(result) == IF result = 0 THEN <<KET0, ZERO>> ELSE <<ZERO, KET0>>

measure(rand) ==
    \E result \in {Outcome(rand, cnorm2(beta))} :
    \E c \in {Collapse(result)} :
        /\ Record("measure", [rand |-> rand], result)
        /\ alpha' = c[1]
        /\ beta' = c[2]
        /\ gateLog' = Append(gateLog, MeasureEntry(result, c[1], c[2]))
        /\ UNCHANGED <<Bz, larmorFreq, rabiFreq, decoVars>>

\* reset() assigning alpha only; reset() emptying the gate log too.
resetAlphaOnly ==
    /\ Record("reset", <<>>, Undefined)
    /\ alpha' = KET0
    /\ UNCHANGED <<beta, Bz, larmorFreq, rabiFreq, gateLog, decoVars>>
resetClearingLog ==
    /\ Record("reset", <<>>, Undefined)
    /\ alpha' = KET0
    /\ beta' = ZERO
    /\ gateLog' = <<>>
    /\ UNCHANGED <<Bz, larmorFreq, rabiFreq, decoVars>>

reset ==
    /\ Record("reset", <<>>, Undefined)
    /\ alpha' = KET0
    /\ beta' = ZERO
    /\ UNCHANGED <<Bz, larmorFreq, rabiFreq, gateLog, decoVars>>

clearGateLog ==
    /\ Record("clearGateLog", <<>>, Undefined)
    /\ gateLog' = <<>>
    /\ UNCHANGED <<alpha, beta, Bz, larmorFreq, rabiFreq, decoVars>>

-----------------------------------------------------------------------------
(* Time evolution and decoherence.                                         *)

\* evolve() with the branch of the drive never taken.
evolveUndriven(dt, isPulsing) ==
    LET phase == HalfAngle(FreqOf(Bz), SimDt(dt))
        a2 == cmul(alpha, cexp(phase))
        b2 == cmul(beta, cexp(IF IsFinite(phase) THEN 0 - phase ELSE phase))
    IN  \E n \in {normalize(a2, b2)} :
        /\ Record("evolve", [dt |-> dt, isPulsing |-> isPulsing], Undefined)
        /\ larmorFreq' = FreqOf(Bz)
        /\ rabiFreq' = 0
        /\ alpha' = n[1]
        /\ beta' = n[2]
        /\ UNCHANGED <<Bz, gateLog, decoVars>>

evolve(dt, isPulsing) ==
    LET simDt == SimDt(dt)
        half == HalfAngle(FreqOf(B1_max), simDt)
        cosH == Cos(half)
        sinH == Sin(half)
        a1 == IF isPulsing
              THEN cadd(cscale(alpha, cosH), cmul(C(0, FNeg(sinH)), beta))
              ELSE alpha
        b1 == IF isPulsing
              THEN cadd(cmul(C(0, FNeg(sinH)), alpha), cscale(beta, cosH))
              ELSE beta
        phase == HalfAngle(FreqOf(Bz), simDt)
        a2 == cmul(a1, cexp(phase))
        b2 == cmul(b1, cexp(IF IsFinite(phase) THEN 0 - phase ELSE phase))
    IN  \E n \in {normalize(a2, b2)} :
        /\ Record("evolve", [dt |-> dt, isPulsing |-> isPulsing], Undefined)
        /\ larmorFreq' = FreqOf(Bz)
        /\ rabiFreq' = IF isPulsing THEN FreqOf(B1_max) ELSE 0
        /\ alpha' = n[1]
        /\ beta' = n[2]
        /\ UNCHANGED <<Bz, gateLog, decoVars>>

\* A time constant T is a decimal [m, e] of seconds, e >= -12.

\* The test with T >= 0 in place of T > 0.
ChannelOnInclusive(T) ==
    /\ T.m # NaN
    /\ T.m >= 0
    /\ IF T.e >= 6 THEN FALSE
       ELSE IF T.e <= 2 THEN TRUE
       ELSE T.m * 10^T.e < 10^6

\* T > 0 && T < 1e6
ChannelOn(T) ==
    /\ T.m # NaN
    /\ T.m > 0
    /\ IF T.e >= 6 THEN FALSE
       ELSE IF T.e <= 2 THEN TRUE
       ELSE T.m * 10^T.e < 10^6

\* simDt / T for T >= 0, simDt in ps; a positive simDt over 0 is Infinity.
Ratio(simDt, T) ==
    LET k == T.e + 12
    IN  IF ~IsFinite(simDt) THEN simDt
        ELSE IF T.m = 0 THEN (IF simDt = 0 THEN NaN ELSE PosInf)
        ELSE IF k <= 5 THEN RDiv(SCALE * simDt, T.m * 10^k)
        ELSE IF k <= 14 THEN RDiv(RDiv(SCALE * simDt, 10^(k - 5)), T.m * 10^5)
        ELSE 0

\* ISqrt(q * s) without overflow of the product.
RECURSIVE BigSqrt(_, _)
BigSqrt(q, s) == IF q <= Reserved \div s THEN ISqrt(q * s)
                 ELSE 2 * BigSqrt(q \div 4, s)

\* Math.sqrt(x / y) for squared magnitudes x >= 0, y > 0.
SqrtRatio(x, y) ==
    IF x = NaN \/ y = NaN THEN NaN
    ELSE BigSqrt(RDiv(x * SCALE, y), SCALE)

\* The T1 block of applyDecoherence.
Relax(simDt, decoState, a, b) ==
    IF ChannelOn(decoState.T1)
    THEN LET p1 == cnorm2(b)
             p_eq == FMul(decoState.thermalExcitation, SCALE * SCALE)
             decay1 == ExpNeg(Ratio(simDt, decoState.T1))
             newP1 == FAdd(p_eq, FMul(FSub(p1, p_eq), decay1))
             clampedP1 == Max0(Min1(newP1, ONE_P))
             newP0 == FSub(ONE_P, clampedP1)
             currentP0 == cnorm2(a)
             currentP1 == cnorm2(b)
         IN  <<IF FGt(currentP0, PROB_EPS)
               THEN cscale(a, SqrtRatio(newP0, currentP0)) ELSE a,
               IF FGt(currentP1, PROB_EPS)
               THEN cscale(b, SqrtRatio(clampedP1, currentP1)) ELSE b>>
    ELSE <<a, b>>

\* The T2 block of applyDecoherence; rand is the value of Math.random().
Dephase(simDt, decoState, rand, a, b) ==
    IF ChannelOn(decoState.T2)
    THEN LET decay2 == ExpNeg(Ratio(simDt, decoState.T2))
             currentCoherence == FMul(SqrtP(cnorm2(a)), SqrtP(cnorm2(b)))
             phaseKick == FMul(FMul(FSub(SCALE, decay2),
                                    rand - SCALE \div 2), SCALE \div 10)
         IN  IF FGt(currentCoherence, PROB_EPS)
             THEN <<a, cmul(b, cexp(phaseKick))>>
             ELSE <<a, b>>
    ELSE <<a, b>>

applyDecoherence(dt, decoState, rand) ==
    /\ Record("applyDecoherence",
              [dt |-> dt, decoState |-> decoState, rand |-> rand], Undefined)
    /\ IF ~decoState.defined
       THEN UNCHANGED <<alpha, beta>>
       ELSE \E r \in {Relax(SimDt(dt), decoState, alpha, beta)} :
            \E d \in {Dephase(SimDt(dt), decoState, rand, r[1], r[2])} :
            \E n \in {normalize(d[1], d[2])} :
                /\ alpha' = n[1]
                /\ beta' = n[2]
    /\ UNCHANGED <<Bz, larmorFreq, rabiFreq, gateLog, decoVars>>

\* The assignments at the end of computePhysics().
Recompute(t, b) ==
    \E d \in {computePhysics(t, b)} :
        /\ T1' = d.T1
        /\ T2' = d.T2
        /\ T2star' = d.T2star
        /\ thermalExcitation' = d.thermalExcitation
        /\ zeemanSplitting' = d.zeemanSplitting

\* setBfield doing nothing.
setBfieldDropped(b) == UNCHANGED decoVars

\* setBfield without the call of computePhysics().
setBfieldStale(b) ==
    /\ Bfield' = b
    /\ UNCHANGED <<temperature, T1, T2, T2star, thermalExcitation,
                   zeemanSplitting>>

\* Decoherence.setBfield(b), a step of setBField.
setBfield(b) ==
    /\ Bfield' = b
    /\ Recompute(temperature, b)
    /\ UNCHANGED temperature

\* Decoherence.setTemperature(t).
setTemperature(t) ==
    /\ Record("setTemperature", [t |-> t], Undefined)
    /\ temperature' = t
    /\ Recompute(t, Bfield)
    /\ UNCHANGED <<Bfield, spinVars>>

setBField(bz) ==
    /\ Record("setBField", [bz |-> bz], Undefined)
    /\ Bz' = bz
    /\ larmorFreq' = FreqOf(bz)
    /\ setBfield(bz)
    /\ UNCHANGED <<alpha, beta, rabiFreq, gateLog>>

\* noiseLevel of getState(): the clamped ratio of two logarithms.
noiseLevel ==
    LET T_k == DMax(DNorm(temperature, -3), [m |-> 1000, e |-> -6])
        l == Log10(DDiv(T_k, T_REF))
        d == Log10(DDiv(DInt(4), T_REF))
    IN  Min1(Max0(IF l = NaN THEN NaN ELSE RDiv(l * SCALE, d)), SCALE)

\* The object Decoherence.getState() returns; the fields derived from
\* noiseLevel and the unit conversions by a constant factor are left out.
EnvironmentSnapshot ==
    [temperature |-> temperature, T1 |-> T1, T2 |-> T2, T2star |-> T2star,
     thermalExcitation |-> thermalExcitation,
     zeemanSplitting |-> zeemanSplitting, noiseLevel |-> noiseLevel]

\* A call of Decoherence.getState(): it assigns nothing.
readState ==
    /\ Record("getState", <<>>, EnvironmentSnapshot)
    /\ UNCHANGED <<spinVars, decoVars>>

\* getStateVector() returning the engine's own two objects.
StateVectorAliased ==
    [defined |-> TRUE, alpha |-> alpha, beta |-> beta, shared |-> TRUE]

\* The object getStateVector() returns: { alpha: { ...alpha },
\* beta: { ...beta } }, two new objects holding the numbers of the engine's
\* amplitudes.  shared tells whether its alpha and beta are the engine's
\* own objects, so that an assignment through one is seen through the
\* other.
StateVector ==
    [defined |-> TRUE, alpha |-> alpha, beta |-> beta, shared |-> FALSE]
NoStateVector ==
    [defined |-> FALSE, alpha |-> KET0, beta |-> ZERO, shared |-> FALSE]

\* A call of getStateVector(): it assigns nothing in the engine.
getStateVector ==
    /\ Record("getStateVector", <<>>, StateVector)
    /\ sv' = StateVector
    /\ UNCHANGED <<spinVars, decoVars>>

\* Every mutating operation assigns new objects to alpha and beta (cscale
\* in normalize(), literals in measure() and reset()): an object handed
\* out before is not the engine's afterwards.
Detached == [sv EXCEPT !.shared = FALSE]

-----------------------------------------------------------------------------
(* Inputs and specifications.                                              *)

\* Frame time (ms) of a 60 Hz display.
DtSet == {16}
\* Gate parameters: omitted, 0, pi.
ParamSet == {Undefined, 0, PI_FX}
\* A gate id that applyGate does not know.
UnknownGates == {"CNOT"}
\* Values of Math.random(): the ends of [0, 1).
RandSet == {0, SCALE - 1}
\* A field (0.01 T): the top of the slider range.
FieldSet == {300}

\* A decoState argument; defined is FALSE for a null or undefined argument.
Snapshot(t1, t2, th) ==
    [defined |-> TRUE, T1 |-> t1, T2 |-> t2, thermalExcitation |-> th]
\* Decoherence.getState(), as far as applyDecoherence reads it.
getState == Snapshot(T1, T2, thermalExcitation)
\* Other snapshots: the one at 4000 mK and 1 T, and one with the T1 channel
\* disabled.
HotState ==
    LET d == computePhysics(4000, 100)
    IN  Snapshot(d.T1, d.T2, d.thermalExcitation)
T1OffState ==
    Snapshot([m |-> 1000, e |-> 3], HotState.T2, HotState.thermalExcitation)
DecoStates == {HotState, T1OffState}

Init ==
    /\ alpha = KET0
    /\ beta = ZERO
    /\ Bz = 100
    /\ larmorFreq = FreqOf(100)
    /\ rabiFreq = 0
    /\ gateLog = <<>>
    /\ calls = 0
    /\ last = NoCall
    /\ prev = NoCall
    /\ temperature = 20
    /\ Bfield = 100
    /\ T1 = computePhysics(20, 100).T1
    /\ T2 = computePhysics(20, 100).T2
    /\ T2star = computePhysics(20, 100).T2star
    /\ thermalExcitation = computePhysics(20, 100).thermalExcitation
    /\ zeemanSplitting = computePhysics(20, 100).zeemanSplitting
    /\ pc = "idle"
    /\ task = "none"
    /\ loops = {}
    /\ queue = <<>>
    /\ sv = NoStateVector
    /\ page = [loaded |-> FALSE, currentStage |-> 1, shown |-> 1,
               next2Disabled |-> FALSE, next3Disabled |-> FALSE,
               disabled |-> FALSE, locked |-> {}, isPulsing |-> FALSE, pulseDuration |-> 0,
               event |-> "none", dt |-> 0, events |-> 0]
    /\ hand = [enabled |-> FALSE, camera |-> 0, cameras |-> 0,
               pending |-> {}, started |-> {}, leftHandY |-> Null,
               rightHandY |-> Null, left |-> Null, right |-> Null,
               onTemperatureChange |-> Null,
               onBFieldChange |-> Null, events |-> 0]
    /\ tick = [snapshot |-> Null, dt |-> 0, frames |-> 0, steps |-> 0,
               requested |-> TRUE, thrown |-> {}]
    /\ run = [now |-> 0, generation |-> 0, circuit |-> <<>>,
              timers |-> <<>>, fired |-> 0]

\* A call made directly, outside the tasks of main.js and
\* pulseController.js.
Direct == UNCHANGED <<callerVars, pageVars>>

Next ==
    \/ \E g \in GateIds \ Rotations : applyGate(g, Undefined) /\ Direct
    \/ \E g \in Rotations, param \in ParamSet : applyGate(g, param) /\ Direct
    \/ \E g \in UnknownGates : applyGate(g, Undefined) /\ Direct
    \/ \E rand \in RandSet : measure(rand) /\ Direct
    \/ reset /\ Direct
    \/ clearGateLog /\ Direct
    \/ \E dt \in DtSet, isPulsing \in BOOLEAN : evolve(dt, isPulsing) /\ Direct
    \/ \E dt \in DtSet, rand \in RandSet :
          applyDecoherence(dt, getState, rand) /\ Direct
    \/ \E dt \in DtSet, decoState \in DecoStates, rand \in RandSet :
          applyDecoherence(dt, decoState, rand) /\ Direct
    \/ \E bz \in FieldSet : setBField(bz) /\ Direct

Spec == Init /\ [][Next]_vars

\* The same operations with arguments outside the ranges the interface
\* produces: infinite and NaN numbers, a missing snapshot, a snapshot with
\* a short T1 and no thermal excitation.
NullState ==
    [defined |-> FALSE, T1 |-> DNaN, T2 |-> DNaN, thermalExcitation |-> NaN]
FastColdState == Snapshot(HotState.T1, HotState.T2, 0)
ExtremeParams == {Undefined, PosInf, NaN}
ExtremeDts == {16, PosInf, NaN}
ExtremeStates == {NullState, FastColdState}
ExtremeFields == {300, NaN}

NextExtreme ==
    \/ \E g \in GateIds \ Rotations : applyGate(g, Undefined) /\ Direct
    \/ \E g \in Rotations, param \in ExtremeParams : applyGate(g, param)
          /\ Direct
    \/ \E g \in UnknownGates : applyGate(g, Undefined) /\ Direct
    \/ \E rand \in RandSet : measure(rand) /\ Direct
    \/ reset /\ Direct
    \/ clearGateLog /\ Direct
    \/ \E dt \in ExtremeDts, isPulsing \in BOOLEAN : evolve(dt, isPulsing)
          /\ Direct
    \/ \E dt \in ExtremeDts, decoState \in ExtremeStates, rand \in RandSet :
          applyDecoherence(dt, decoState, rand) /\ Direct
    \/ \E bz \in ExtremeFields : setBField(bz) /\ Direct

SpecExtreme == Init /\ [][NextExtreme]_vars

\* applyDecoherence on prepared superpositions, with snapshots that switch
\* the T1 channel off in each of the ways the test of the T1 block allows:
\* T1 = 1e6, T1 = 0, T1 < 0, and both channels off.
T1ZeroState ==
    Snapshot([m |-> 0, e |-> 0], HotState.T2, HotState.thermalExcitation)
T1NegState ==
    Snapshot([m |-> 0 - 1000, e |-> -9], HotState.T2,
             HotState.thermalExcitation)
BothOffState ==
    Snapshot([m |-> 1000, e |-> 3], [m |-> 0, e |-> 0],
             HotState.thermalExcitation)
T1OffStates == {T1OffState, T1ZeroState, T1NegState, BothOffState}
PrepGates == {"H", "X", "S"}
PrepParams == {PI_FX \div 3}

NextDeco ==
    \/ \E g \in PrepGates : applyGate(g, Undefined) /\ Direct
    \/ \E param \in PrepParams : applyGate("Ry", param) /\ Direct
    \/ \E dt \in DtSet, rand \in RandSet :
          applyDecoherence(dt, getState, rand) /\ Direct
    \/ \E dt \in DtSet, decoState \in T1OffStates \cup {HotState},
          rand \in RandSet :
          applyDecoherence(dt, decoState, rand) /\ Direct

SpecDeco == Init /\ [][NextDeco]_vars

\* The environment model under its setters, over the ranges of the two
\* sliders: 1 .. 4000 mK and 0.1 .. 3.0 T.
TempSet == {1, 2, 5, 20, 100, 500, 1000, 2000, 4000}
EnvFieldSet == {10, 50, 100, 200, 300}

NextEnv ==
    \/ \E t \in TempSet : setTemperature(t) /\ Direct
    \/ \E bz \in EnvFieldSet : setBField(bz) /\ Direct
    \/ readState /\ Direct

SpecEnv == Init /\ [][NextEnv]_vars

-----------------------------------------------------------------------------
(* The callers of the engine: the animation loops of main.js and the       *)
(* handlers of pulseController.js.  A task (a frame, a click handler, a    *)
(* timer callback) runs to its end before the next one starts; pc is       *)
(* "idle" between tasks.                                                   *)

\* main.js holds two copies of the bootstrap function; each registers
\* init() and each init() starts its own animate() loop.
AnimateLoops == {"animate", "animate'"}
\* Circuits typed into the circuit input.
Circuits == {<<"H", "MEASURE">>}
\* A number a reader stores into the object it was given.
ReaderValues == {0}

\* animate(): SpinPhysics.evolve(dt, isPulsing) ...
animateEvolve(loop, dt, isPulsing) ==
    /\ pc = "idle"
    /\ evolve(dt, isPulsing)
    /\ pc' = "frame"
    /\ task' = loop
    /\ loops' = loops \cup {loop}
    /\ sv' = Detached
    /\ UNCHANGED queue

\* ... then SpinPhysics.applyDecoherence(dt, decoState), with the snapshot
\* read at the start of the frame.
animateDecohere(dt, rand) ==
    /\ pc = "frame"
    /\ applyDecoherence(dt, getState, rand)
    /\ pc' = "idle"
    /\ sv' = Detached
    /\ UNCHANGED <<task, loops, queue>>

\* The click handler of a gate button.
clickGate(gate, param) ==
    /\ pc = "idle"
    /\ applyGate(gate, param)
    /\ task' = "click"
    /\ sv' = Detached
    /\ UNCHANGED <<pc, loops, queue>>

\* The click handler of the measure button.
clickMeasure(rand) ==
    /\ pc = "idle"
    /\ measure(rand)
    /\ task' = "click"
    /\ sv' = Detached
    /\ UNCHANGED <<pc, loops, queue>>

\* The click handler of the reset button: reset(), then clearGateLog().
clickReset ==
    /\ pc = "idle"
    /\ reset
    /\ pc' = "clear"
    /\ task' = "click"
    /\ sv' = Detached
    /\ UNCHANGED <<loops, queue>>

\* runCircuit(): reset(), clearGateLog(), then one setTimeout per word of
\* the circuit; the callbacks run after the handler has ended.
runCircuit(circuit) ==
    /\ pc = "idle"
    /\ reset
    /\ pc' = "clear"
    /\ task' = "click"
    /\ queue' = queue \o circuit
    /\ sv' = Detached
    /\ UNCHANGED loops

\* The clearGateLog() call that follows reset() in both handlers.
clearAfterReset ==
    /\ pc = "clear"
    /\ clearGateLog
    /\ pc' = "idle"
    /\ UNCHANGED <<task, loops, queue, sv>>

\* A timer callback of runCircuit.
timerFires(rand) ==
    /\ pc = "idle"
    /\ queue # <<>>
    /\ IF Head(queue) = "MEASURE" THEN measure(rand)
       ELSE applyGate(Head(queue), Undefined)
    /\ queue' = Tail(queue)
    /\ task' = "timer"
    /\ sv' = Detached
    /\ UNCHANGED <<pc, loops>>

\* updateDisplay() or another reader: const sv = getStateVector().
readStateVector ==
    /\ pc = "idle"
    /\ getStateVector
    /\ UNCHANGED <<pc, task, loops, queue>>

\* A reader assigning sv.alpha.re = v.
readerWrites(v) ==
    /\ sv.defined
    /\ sv.alpha.re # v
    /\ sv' = [sv EXCEPT !.alpha.re = v]
    /\ alpha' = IF sv.shared THEN [alpha EXCEPT !.re = v] ELSE alpha
    /\ UNCHANGED <<beta, Bz, larmorFreq, rabiFreq, gateLog, histVars,
                   decoVars, pc, task, loops, queue>>

NextLoop ==
    \/ \E loop \in AnimateLoops, dt \in DtSet, isPulsing \in BOOLEAN :
          animateEvolve(loop, dt, isPulsing) /\ UNCHANGED pageVars
    \/ \E dt \in DtSet, rand \in RandSet :
          animateDecohere(dt, rand) /\ UNCHANGED pageVars
    \/ \E gate \in GateIds \ Rotations :
          clickGate(gate, Undefined) /\ UNCHANGED pageVars
    \/ \E gate \in Rotations, param \in ParamSet :
          clickGate(gate, param) /\ UNCHANGED pageVars
    \/ \E rand \in RandSet : clickMeasure(rand) /\ UNCHANGED pageVars
    \/ clickReset /\ UNCHANGED pageVars
    \/ \E circuit \in Circuits : runCircuit(circuit) /\ UNCHANGED pageVars
    \/ clearAfterReset /\ UNCHANGED pageVars
    \/ \E rand \in RandSet : timerFires(rand) /\ UNCHANGED pageVars
    \/ readStateVector /\ UNCHANGED pageVars
    \/ \E v \in ReaderValues : readerWrites(v) /\ UNCHANGED pageVars

SpecLoop == Init /\ [][NextLoop]_vars

-----------------------------------------------------------------------------
(* The page: the stage buttons and tabs of ui.js, StageManager of main.js  *)
(* and PulseController of pulseController.js.  The markup is not part of   *)
(* the sources: whether a button carries the class or the attribute        *)
(* "disabled" when the page is loaded, and whether the tabs of the later   *)
(* stages are locked, is a choice made when the page is loaded.  The       *)
(* button btn-next-k stands on the content of stage k.                     *)

\* The number of events handled by the page, or by hand tracking.
MaxEvents == 5
\* dt of PulseController.update(dt), ms.
PulseDts == {16, 50}
\* A stage past the last one.
BeyondStages == {5}

\* updateStageNav(unlocked): the tabs of the stages above unlocked are
\* locked.
updateStageNav(unlocked) == {s \in 1..4 : s > unlocked}

\* StageManager.unlock(stage): currentStage = stage, updateStageNav(stage),
\* showStageContent(stage).
unlock(stage, p) ==
    IF stage > 4 THEN p
    ELSE [p EXCEPT !.currentStage = stage, !.shown = stage,
                   !.locked = updateStageNav(stage)]

\* StageManager.goTo(stage): showStageContent(stage).
goTo(stage, p) ==
    IF stage < 1 \/ stage > 4 THEN p ELSE [p EXCEPT !.shown = stage]

\* start of PulseController without the test of btn.disabled.
startAlways(p) == [p EXCEPT !.isPulsing = TRUE, !.pulseDuration = 0]

\* start and stop, the listeners PulseController.init() registers.
start(p) ==
    IF p.disabled THEN p
    ELSE [p EXCEPT !.isPulsing = TRUE, !.pulseDuration = 0]
stop(p) == [p EXCEPT !.isPulsing = FALSE]

\* PulseController.update(dt).
update(dt, p) ==
    IF ~p.isPulsing THEN p
    ELSE [p EXCEPT !.pulseDuration = p.pulseDuration + dt]

\* DOMContentLoaded: the page as the markup makes it.
domReady(next2, next3, disabled, locked) ==
    /\ ~page.loaded
    /\ page' = [page EXCEPT !.loaded = TRUE, !.next2Disabled = next2,
                            !.next3Disabled = next3, !.disabled = disabled,
                            !.locked = locked]
    /\ UNCHANGED <<spinVars, histVars, decoVars, callerVars, hand, tick, run>>

\* An event of the page, handled: p is the page the handler leaves.  No
\* handler of this section calls the engine.
Handled(name, dt, p) ==
    /\ page.loaded
    /\ page.events < MaxEvents
    /\ page' = [p EXCEPT !.event = name, !.dt = dt,
                         !.events = page.events + 1]
    /\ UNCHANGED <<spinVars, histVars, decoVars, callerVars, hand, tick, run>>

\* The click handlers of btn-next-1, btn-next-2 and btn-next-3.
clickNext1 ==
    /\ page.shown = 1
    /\ Handled("next1", 0, unlock(2, page))
clickNext2 ==
    /\ page.shown = 2
    /\ Handled("next2", 0,
               IF page.next2Disabled THEN page ELSE unlock(3, page))
clickNext3 ==
    /\ page.shown = 3
    /\ Handled("next3", 0,
               IF page.next3Disabled THEN page
               ELSE [unlock(4, page) EXCEPT !.disabled = FALSE])

\* The click handler of a stage tab.
clickTab(stage) ==
    Handled("tab", 0, IF stage \in page.locked THEN page ELSE goTo(stage, page))

\* A call of StageManager.unlock with a stage past the last one.
unlockBeyond(stage) == Handled("unlock", 0, unlock(stage, page))

\* QuantumDot.update() finding the electron trapped: it takes the class
\* "disabled" from btn-next-3.
electronTrapped ==
    Handled("trapped", 0, [page EXCEPT !.next3Disabled = FALSE])

\* The listeners of the pulse button, and update(dt) of a frame.
Presses == {"mousedown", "touchstart"}
Releases == {"mouseup", "mouseleave", "touchend"}
press(name) == Handled(name, 0, start(page))
release(name) == Handled(name, 0, stop(page))
pulseUpdate(dt) == Handled("update", dt, update(dt, page))

NextPage ==
    \/ \E next2 \in BOOLEAN, next3 \in BOOLEAN, disabled \in BOOLEAN,
          locked \in {{}, {2, 3, 4}} :
          domReady(next2, next3, disabled, locked)
    \/ clickNext1
    \/ clickNext2
    \/ clickNext3
    \/ \E stage \in 1..4 : clickTab(stage)
    \/ \E stage \in BeyondStages : unlockBeyond(stage)
    \/ electronTrapped
    \/ \E name \in Presses : press(name)
    \/ \E name \in Releases : release(name)
    \/ \E dt \in PulseDts : pulseUpdate(dt)

SpecPage == Init /\ [][NextPage]_vars

-----------------------------------------------------------------------------
(* handTracking.js and its wiring in main.js.  A camera is a Camera object *)
(* of the MediaPipe library, numbered in the order of creation;            *)
(* hand.camera is the variable camera of the module, hand.pending the      *)
(* cameras whose start() has been called and has not settled,              *)
(* hand.started the cameras whose start() has succeeded and whose stop()   *)
(* has not been called.  Heights are fixed point, 0 the bottom of the      *)
(* image and SCALE its top.  A temperature of a gesture is kept in         *)
(* hundredths of a millikelvin, a field in hundredths of a tesla.          *)

\* avgFingerY of a hand in a frame; Null: the hand is not in the frame.
\* A landmark may lie outside the image.
HandHeights == {Null, 0 - RDiv(SCALE, 5), RDiv(11 * SCALE, 20),
                RDiv(13 * SCALE, 10)}

\* A number where JavaScript converts null to one.
ToNumber(v) == IF v = Null THEN 0 ELSE v

\* smooth(prev, curr, factor).
smooth(previous, curr, factor) ==
    IF previous = Null THEN curr
    ELSE previous + RDiv((curr - previous) * factor, SCALE)

Clamp(lo, hi, x) == IF x < lo THEN lo ELSE IF x > hi THEN hi ELSE x

\* mapRange(val, inMin, inMax, outMin, outMax): val, inMin and inMax fixed
\* point, the result in the unit of outMin and outMax.
mapRange(val, inMin, inMax, outMin, outMax) ==
    LET t == Clamp(0, SCALE, RDiv((ToNumber(val) - inMin) * SCALE,
                                   inMax - inMin))
    IN  outMin + RDiv(t * (outMax - outMin), SCALE)

\* Math.round of a number kept in hundredths.
Round(x) == RDiv(x, 100) * 100

\* The temperature callback made without the test newLeftY !== null.
TemperatureGestureUnguarded(newLeftY) ==
    Clamp(2000, 400000,
          Round(mapRange(newLeftY, RDiv(SCALE, 5), RDiv(9 * SCALE, 10),
                         2000, 400000)))

\* The argument of onTemperatureChange in a frame, in hundredths of a
\* millikelvin; Null: the callback is not made.
TemperatureGesture(newLeftY) ==
    IF newLeftY = Null THEN Null
    ELSE Clamp(2000, 400000,
               Round(mapRange(newLeftY, RDiv(SCALE, 5), RDiv(9 * SCALE, 10),
                              2000, 400000)))

\* The argument of onBFieldChange in a frame, in hundredths of a tesla:
\* parseFloat(clampedB.toFixed(2)).
FieldGesture(newRightY) ==
    IF newRightY = Null THEN Null
    ELSE LET clampedB ==
                 Clamp(RDiv(SCALE, 10), 3 * SCALE,
                       mapRange(newRightY, RDiv(SCALE, 5),
                                RDiv(9 * SCALE, 10), RDiv(SCALE, 10),
                                3 * SCALE))
         IN  RDiv(clampedB * 100, SCALE)

\* An event of hand tracking, handled: h is the record it leaves.
Tracked(h) ==
    /\ hand.events < MaxEvents
    /\ hand' = [h EXCEPT !.events = hand.events + 1]
    /\ UNCHANGED <<histVars, callerVars, page, tick, run>>

\* HandTracking.start() up to await camera.start(): a new Camera is
\* assigned to camera and its start() is called.
startTracking(h) ==
    IF h.enabled THEN h
    ELSE [h EXCEPT !.camera = h.cameras + 1, !.cameras = h.cameras + 1,
                   !.pending = h.pending \cup {h.cameras + 1}]

\* HandTracking.stop().
stopTracking(h) ==
    [h EXCEPT !.started = h.started \ {h.camera}, !.enabled = FALSE,
              !.leftHandY = Null, !.rightHandY = Null]

\* The click handler of btn-hand-tracking.
toggleClick ==
    /\ Tracked(IF hand.enabled THEN stopTracking(hand)
               ELSE startTracking(hand))
    /\ UNCHANGED <<spinVars, decoVars>>

\* await camera.start() resumes: enabled = true, initialized = true.
startResumes(c) ==
    /\ c \in hand.pending
    /\ Tracked([hand EXCEPT !.pending = hand.pending \ {c},
                            !.started = hand.started \cup {c},
                            !.enabled = TRUE])
    /\ UNCHANGED <<spinVars, decoVars>>

\* await camera.start() throws: the catch block.
startThrows(c) ==
    /\ c \in hand.pending
    /\ Tracked([hand EXCEPT !.pending = hand.pending \ {c}])
    /\ UNCHANGED <<spinVars, decoVars>>

\* onResults(results), with the callbacks main.js gives to
\* HandTracking.init(): Decoherence.setTemperature(tempMK) and
\* SpinPhysics.setBField(bField).  Frames are sent while enabled.
onResults(left, right) ==
    LET newLeftY == IF left = Null THEN Null
                    ELSE smooth(hand.leftHandY, left, RDiv(SCALE, 4))
        newRightY == IF right = Null THEN Null
                     ELSE smooth(hand.rightHandY, right, RDiv(SCALE, 4))
        tempMK == TemperatureGesture(newLeftY)
        bField == FieldGesture(newRightY)
        t == IF tempMK = Null THEN temperature ELSE tempMK \div 100
        b == IF bField = Null THEN Bfield ELSE bField
    IN  /\ hand.enabled
        /\ Tracked([hand EXCEPT !.leftHandY = newLeftY,
                                !.rightHandY = newRightY,
                                !.left = left, !.right = right,
                                !.onTemperatureChange = tempMK,
                                !.onBFieldChange = bField])
        /\ temperature' = t
        /\ Bfield' = b
        /\ IF tempMK = Null /\ bField = Null
           THEN UNCHANGED <<T1, T2, T2star, thermalExcitation,
                            zeemanSplitting>>
           ELSE Recompute(t, b)
        /\ Bz' = IF bField = Null THEN Bz ELSE b
        /\ larmorFreq' = IF bField = Null THEN larmorFreq ELSE FreqOf(b)
        /\ UNCHANGED <<alpha, beta, rabiFreq, gateLog>>

NextHand ==
    \/ toggleClick
    \/ \E c \in 1..MaxEvents + 1 : startResumes(c)
    \/ \E c \in 1..MaxEvents + 1 : startThrows(c)
    \/ \E left \in HandHeights, right \in HandHeights : onResults(left, right)

SpecHand == Init /\ [][NextHand]_vars

-----------------------------------------------------------------------------
(* animate() of main.js, statement by statement.  tick.requested tells     *)
(* whether a call of animate() is due: init() makes the first one, and     *)
(* each call asks for the next with requestAnimationFrame before it does   *)
(* anything else.  tick.frames counts the calls begun, tick.steps the      *)
(* physics steps completed, tick.thrown collects the functions that have   *)
(* thrown.                                                                 *)

\* The functions animate() calls inside a try block of their own.
Throwers == {"Lattice.update", "QuantumDot.update", "UI.updateReadouts"}
\* Values of the temperature slider, mK.
SliderTemps == {500}

\* animate() with Lattice.update and QuantumDot.update called outside a try
\* block: an exception ends the frame.
tickBeginUncaught(loop, dt, thrown) ==
    /\ pc = "idle"
    /\ tick.requested
    /\ tick.frames < MaxEvents
    /\ tick' = [tick EXCEPT !.snapshot = getState, !.dt = dt,
                            !.frames = tick.frames + 1, !.requested = TRUE,
                            !.thrown = tick.thrown \cup thrown]
    /\ pc' = IF thrown = {} THEN "evolve" ELSE "idle"
    /\ task' = loop
    /\ loops' = loops \cup {loop}
    /\ UNCHANGED <<spinVars, histVars, decoVars, queue, sv, page, hand, run>>

\* animate() up to the physics: requestAnimationFrame(animate), dt,
\* decoState = Decoherence.getState(), then Lattice.update and
\* QuantumDot.update, each in its try block.
tickBegin(loop, dt, thrown) ==
    /\ pc = "idle"
    /\ tick.requested
    /\ tick.frames < MaxEvents
    /\ tick' = [tick EXCEPT !.snapshot = getState, !.dt = dt,
                            !.frames = tick.frames + 1, !.requested = TRUE,
                            !.thrown = tick.thrown \cup thrown]
    /\ pc' = "evolve"
    /\ task' = loop
    /\ loops' = loops \cup {loop}
    /\ UNCHANGED <<spinVars, histVars, decoVars, queue, sv, page, hand, run>>

\* SpinPhysics.evolve(dt, PulseController.getIsPulsing()).
tickEvolve ==
    /\ pc = "evolve"
    /\ evolve(tick.dt, page.isPulsing)
    /\ pc' = "decohere"
    /\ sv' = Detached
    /\ UNCHANGED <<task, loops, queue, pageVars>>

\* SpinPhysics.applyDecoherence(dt, decoState), PulseController.update(dt).
tickDecohere(rand) ==
    /\ pc = "decohere"
    /\ applyDecoherence(tick.dt, tick.snapshot, rand)
    /\ pc' = "readouts"
    /\ sv' = Detached
    /\ tick' = [tick EXCEPT !.steps = tick.steps + 1]
    /\ page' = update(tick.dt, page)
    /\ UNCHANGED <<task, loops, queue, hand, run>>

\* The rest of animate(): UI.updateReadouts() in its try block, the audio,
\* the rendering.
tickEnd(thrown) ==
    /\ pc = "readouts"
    /\ pc' = "idle"
    /\ tick' = [tick EXCEPT !.thrown = tick.thrown \cup thrown]
    /\ UNCHANGED <<spinVars, histVars, decoVars, task, loops, queue, sv,
                   page, hand, run>>

\* The input handler of the temperature slider, between two frames.
sliderTemperature(t) ==
    /\ pc = "idle"
    /\ setTemperature(t)
    /\ Direct

\* A press or a release of the pulse button, between two frames.
pulseButton(name) ==
    /\ pc = "idle"
    /\ IF name \in Presses THEN press(name) ELSE release(name)

NextTick ==
    \/ \E next2 \in {FALSE}, next3 \in {TRUE}, disabled \in BOOLEAN,
          locked \in {{2, 3, 4}} : domReady(next2, next3, disabled, locked)
    \/ \E loop \in AnimateLoops, dt \in DtSet,
          thrown \in SUBSET (Throwers \ {"UI.updateReadouts"}) :
          tickBegin(loop, dt, thrown)
    \/ tickEvolve
    \/ \E rand \in RandSet : tickDecohere(rand)
    \/ \E thrown \in SUBSET {"UI.updateReadouts"} : tickEnd(thrown)
    \/ \E t \in SliderTemps : sliderTemperature(t)
    \/ \E name \in {"mousedown", "mouseup"} : pulseButton(name)

SpecTick == Init /\ [][NextTick]_vars

-----------------------------------------------------------------------------
(* runCircuit() and the reset button of pulseController.js, each handler   *)
(* taken whole, with the clock of the timers.  Time is counted in tenths   *)
(* of a second.  run.generation counts the resets made by the two          *)
(* handlers; a timer carries the generation that set it and the time it    *)
(* is due; run.timers is kept in the order of firing: by due time, and by  *)
(* registration among equals.  run.fired is the generation of the timer    *)
(* that fired last, run.circuit the gates of the last runCircuit().        *)

\* The words of the circuit input, upper case, split at white space.
CircuitTexts == {<<"H", "MEASURE">>, <<"I", "X", "M">>}
\* The time from the last event to a click, tenths of a second.
Waits == {1, 2, 3}

\* The words runCircuit() sets a timer for; rotations are not drawn.
Recognised == {"X", "Y", "Z", "H", "S", "T", "MEASURE", "M"}
GateOf(word) == IF word = "M" THEN "MEASURE" ELSE word

\* One timer per recognised word; delay grows by 200 ms with every word.
Schedule(circuit, generation, now) ==
    SelectSeq([i \in 1..Len(circuit) |->
                   [gate |-> GateOf(circuit[i]), word |-> circuit[i],
                    generation |-> generation, due |-> now + 2 * (i - 1)]],
              LAMBDA timer : timer.word \in Recognised)

\* The timers a and b in the order of firing, those of a registered first.
RECURSIVE Merge(_, _)
Merge(a, b) ==
    IF a = <<>> THEN b
    ELSE IF b = <<>> THEN a
    ELSE IF Head(a).due <= Head(b).due
         THEN <<Head(a)>> \o Merge(Tail(a), b)
         ELSE <<Head(b)>> \o Merge(a, Tail(b))

\* A click at the time now + wait: no timer is due before it.
ClickAt(wait) ==
    /\ pc = "idle"
    /\ \A i \in 1..Len(run.timers) : run.timers[i].due >= run.now + wait

\* SpinPhysics.reset(); SpinPhysics.clearGateLog().
ResetAndClear ==
    /\ alpha' = KET0
    /\ beta' = ZERO
    /\ gateLog' = <<>>
    /\ UNCHANGED <<Bz, larmorFreq, rabiFreq, decoVars>>

\* runCircuit() clearing the timers of the runs before it.
runCircuitCancelling(circuit, wait) ==
    /\ ClickAt(wait)
    /\ Record("runCircuit", [circuit |-> circuit], Undefined)
    /\ ResetAndClear
    /\ run' = [run EXCEPT !.now = run.now + wait,
                          !.generation = run.generation + 1,
                          !.circuit = Schedule(circuit, 0, 0),
                          !.timers = Schedule(circuit, run.generation + 1,
                                              run.now + wait)]
    /\ UNCHANGED <<callerVars, page, hand, tick>>

\* The click handler of the run button: runCircuit().
runCircuitClick(circuit, wait) ==
    /\ ClickAt(wait)
    /\ Record("runCircuit", [circuit |-> circuit], Undefined)
    /\ ResetAndClear
    /\ run' = [run EXCEPT !.now = run.now + wait,
                          !.generation = run.generation + 1,
                          !.circuit = Schedule(circuit, 0, 0),
                          !.timers = Merge(run.timers,
                                           Schedule(circuit,
                                                    run.generation + 1,
                                                    run.now + wait))]
    /\ UNCHANGED <<callerVars, page, hand, tick>>

\* The click handler of the reset button.
resetClick(wait) ==
    /\ ClickAt(wait)
    /\ Record("resetClick", <<>>, Undefined)
    /\ ResetAndClear
    /\ run' = [run EXCEPT !.now = run.now + wait,
                          !.generation = run.generation + 1,
                          !.circuit = <<>>]
    /\ UNCHANGED <<callerVars, page, hand, tick>>

\* The timer due first fires: applyGate(g) or SpinPhysics.measure().
timerDue(rand) ==
    /\ pc = "idle"
    /\ run.timers # <<>>
    /\ IF Head(run.timers).gate = "MEASURE" THEN measure(rand)
       ELSE applyGate(Head(run.timers).gate, Undefined)
    /\ run' = [run EXCEPT !.now = Head(run.timers).due,
                          !.timers = Tail(run.timers),
                          !.fired = Head(run.timers).generation]
    /\ UNCHANGED <<callerVars, page, hand, tick>>

NextCircuit ==
    \/ \E circuit \in CircuitTexts, wait \in Waits :
          runCircuitClick(circuit, wait)
    \/ \E wait \in Waits : resetClick(wait)
    \/ \E rand \in RandSet : timerDue(rand)

SpecCircuit == Init /\ [][NextCircuit]_vars

-----------------------------------------------------------------------------
(* Properties.  A probability is compared at the resolution of the        *)
(* arithmetic: an amplitude carries an error of a few units of 1/SCALE, a  *)
(* probability or a norm a few units of SCALE/SCALE^2.                     *)

AmpTol == SCALE \div 500
ProbTol == 2 * SCALE
NormTol == 4 * SCALE

Close(a, b) == Abs(a.re - b.re) <= AmpTol /\ Abs(a.im - b.im) <= AmpTol
Near(p, q) == Abs(p - q) <= ProbTol
IsPrefix(s, t) == Len(s) <= Len(t) /\ SubSeq(t, 1, Len(s)) = s
Ket0Before(call) == call.alpha = KET0 /\ call.beta = ZERO
Gate(call, g) == call.op = "applyGate" /\ call.args.gate = g
Finite(a) == IsFinite(a.re) /\ IsFinite(a.im)
Normalized == Abs(cnorm2(alpha) + cnorm2(beta) - ONE_P) <= NormTol
LastEntry == gateLog[Len(gateLog)]
AppendedOne == Len(gateLog) = Len(last.log) + 1 /\ IsPrefix(last.log, gateLog)

C2_FiniteNormalized == Finite(alpha) /\ Finite(beta) /\ Normalized

\* C3: X on |0> gives p0 = 0, p1 = 1; a second X gives p0 = 1, p1 = 0; two
\* X in a row, nothing in between, restore the amplitude pair.
C3_XInvolution ==
    /\ Gate(last, "X") /\ Ket0Before(last)
          => getP0(alpha) = 0 /\ getP1(beta) = ONE_P
    /\ Gate(last, "X") /\ Gate(prev, "X") /\ Ket0Before(prev)
          => getP0(alpha) = ONE_P /\ getP1(beta) = 0
    /\ Gate(last, "X") /\ Gate(prev, "X")
          => Close(alpha, prev.alpha) /\ Close(beta, prev.beta)

\* Two X in a row on a superposition.
C3_Witness ==
    /\ Gate(last, "X")
    /\ Gate(prev, "X")
    /\ cnorm2(prev.alpha) > 0
    /\ cnorm2(prev.beta) > 0

\* C4: H on |0> gives p0 = p1 = 0.5; a second H right after it gives
\* p0 = 1, p1 = 0, within the tolerance.
C4_HSelfInverse ==
    /\ Gate(last, "H") /\ Ket0Before(last)
          => Near(getP0(alpha), ONE_P \div 2) /\ Near(getP1(beta), ONE_P \div 2)
    /\ Gate(last, "H") /\ Gate(prev, "H") /\ Ket0Before(prev)
          => Near(getP0(alpha), ONE_P) /\ Near(getP1(beta), 0)

\* H twice from |0>.
C4_Witness == Gate(last, "H") /\ Gate(prev, "H") /\ Ket0Before(prev)

\* C5: measure returns 1 only when p1 > 0 and 0 only when p1 < 1: on |0>
\* it returns 0 and on |1> it returns 1, whatever Math.random() returns.
C5_MeasurePossibleOutcome ==
    last.op = "measure"
        => /\ last.result \in {0, 1}
           /\ last.result = 1 => cnorm2(last.beta) > 0
           /\ last.result = 0 => cnorm2(last.beta) < ONE_P
           /\ cnorm2(last.beta) = 0 => last.result = 0
           /\ cnorm2(last.beta) = ONE_P => last.result = 1

\* A measurement of |1> with the largest value of Math.random().
C5_Witness ==
    /\ last.op = "measure"
    /\ cnorm2(last.beta) = ONE_P
    /\ last.args.rand = SCALE - 1
    /\ last.result = 1

\* C6: measure leaves the basis state of its result, pushes one entry with
\* that result, and returns it.
C6_MeasureCollapses ==
    last.op = "measure"
        => /\ last.result = 0 => alpha = KET0 /\ beta = ZERO
           /\ last.result = 1 => alpha = ZERO /\ beta = KET0
           /\ last.result \in {0, 1}
           /\ AppendedOne
           /\ LastEntry.gate = "MEASURE"
           /\ LastEntry.result = last.result

\* A measurement of a superposition that returned 1, the log not empty.
C6_Witness ==
    /\ last.op = "measure"
    /\ last.result = 1
    /\ cnorm2(last.alpha) > 0
    /\ Len(last.log) > 0

\* C7: reset leaves alpha = 1, beta = 0, whatever the state before.
C7_ResetToKet0 ==
    last.op = "reset"
        => /\ alpha = KET0
           /\ beta = ZERO
           /\ getP0(alpha) = ONE_P
           /\ getP1(beta) = 0

\* A reset of a state with both amplitudes non-zero.
C7_Witness ==
    /\ last.op = "reset"
    /\ cnorm2(last.alpha) > 0
    /\ cnorm2(last.beta) > 0

\* C8: reset leaves the gate log as it was; every call but clearGateLog
\* keeps the entries the log had, in their order.
C8_LogAppendOnly ==
    /\ last.op = "reset" => gateLog = last.log
    /\ last.op # "clearGateLog" => IsPrefix(last.log, gateLog)
    /\ last.op = "clearGateLog" => gateLog = <<>>

\* A reset with two entries in the log.
C8_Witness == last.op = "reset" /\ Len(last.log) = 2 /\ Len(gateLog) = 2

\* C9: applyGate with an unknown gate id changes neither alpha, beta nor
\* the gate log, and returns.
C9_UnknownGateNoOp ==
    last.op = "applyGate" /\ last.args.gate \notin GateIds
        => /\ alpha = last.alpha
           /\ beta = last.beta
           /\ gateLog = last.log
           /\ last.result = Undefined

\* An unknown gate applied to a superposition, the log not empty.
C9_Witness ==
    /\ last.op = "applyGate"
    /\ last.args.gate \notin GateIds
    /\ cnorm2(alpha) > 0
    /\ cnorm2(beta) > 0
    /\ Len(gateLog) > 0

\* C10: applyGate with a known gate id pushes one entry that holds the gate
\* id, the parameter the caller supplied, and p0, p1, theta, phi of the
\* state after the gate.
C10_GateLogged ==
    last.op = "applyGate" /\ last.args.gate \in GateIds
        => /\ AppendedOne
           /\ LastEntry.gate = last.args.gate
           /\ LastEntry.param = IF last.args.param = Undefined THEN Null
                                ELSE last.args.param
           /\ LastEntry.stateAfter.p0 = getP0(alpha)
           /\ LastEntry.stateAfter.p1 = getP1(beta)
           /\ LastEntry.stateAfter.theta = getBlochAngles(alpha, beta).theta
           /\ LastEntry.stateAfter.phi = getBlochAngles(alpha, beta).phi

\* C11: when the T1 of the snapshot is 1e6 s or more, or 0 or less,
\* applyDecoherence leaves p1 and p0 as they were, whatever T2 is; after
\* two such calls in a row they are still those before the first.
Disabled(T) == T.m # NaN /\ (T.m <= 0 \/ ~DLt(T, [m |-> 1000, e |-> 3]))
T1Off(call) ==
    /\ call.op = "applyDecoherence"
    /\ call.args.decoState.defined
    /\ Disabled(call.args.decoState.T1)
C11_T1DisabledKeepsPopulations ==
    /\ T1Off(last)
          => /\ Near(getP1(beta), cnorm2(last.beta))
             /\ Near(getP0(alpha), cnorm2(last.alpha))
    /\ T1Off(last) /\ T1Off(prev)
          => /\ Near(getP1(beta), cnorm2(prev.beta))
             /\ Near(getP0(alpha), cnorm2(prev.alpha))

\* Two calls in a row with T1 = 0 and a running T2 channel, on a
\* superposition whose beta the second call turned.
C11_Witness ==
    /\ T1Off(last)
    /\ T1Off(prev)
    /\ last.args.decoState = T1ZeroState
    /\ cnorm2(prev.alpha) > 0
    /\ cnorm2(prev.beta) > 0
    /\ beta # last.beta

\* C12: when 0 < T1 < 1e6, p1 after applyDecoherence is
\* clamp(p_eq + (p1 before - p_eq) * exp(-dt * TIME_SCALE / T1), 0, 1) and
\* p0 is 1 - p1, from every state, |0> and |1> included.
T1On(call) ==
    /\ call.op = "applyDecoherence"
    /\ call.args.decoState.defined
    /\ call.args.decoState.T1.m # NaN
    /\ ~Disabled(call.args.decoState.T1)
RelaxedP1(call) ==
    LET p_eq == call.args.decoState.thermalExcitation * SCALE
        decay == ExpNeg(Ratio(SimDt(call.args.dt), call.args.decoState.T1))
    IN  Max0(Min1(p_eq + RDiv((cnorm2(call.beta) - p_eq) * decay, SCALE),
                  ONE_P))
C12_RelaxesTowardEquilibrium ==
    T1On(last)
        => /\ Near(getP1(beta), RelaxedP1(last))
           /\ Near(getP0(alpha), ONE_P - RelaxedP1(last))

\* C13: after any sequence of setTemperature and setBfield calls with a
\* temperature of 1 .. 4000 mK and a field of 0.1 .. 3.0 T, the T2 that
\* getState() returns is at most twice its T1.
C13_T2AtMostTwiceT1 ==
    ~DLt(DMul(DInt(2), EnvironmentSnapshot.T1), EnvironmentSnapshot.T2)

\* At 1 mK the phonon estimate of T2 exceeds 2 T1 and the bound sets T2.
C13_Witness ==
    /\ last.op = "setTemperature"
    /\ temperature = 1
    /\ prev.op = "setBField"
    /\ T2 = DMul(DInt(2), T1)

\* C14: for a temperature of 1 .. 4000 mK and a field of 0.1 .. 3.0 T every
\* output of the environment model is a finite number within its bounds:
\* 1e-9 <= T1 <= 100, T2 >= 1e-9, 1e-10 <= T2* <= T2,
\* 0 <= thermalExcitation <= 1, 0 <= noiseLevel <= 1.
DFinite(x) == IsFinite(x.m)
DLe(a, b) == ~DLt(b, a)
C14_OutputsWithinBounds ==
    LET s == EnvironmentSnapshot
    IN  /\ DFinite(s.T1) /\ DFinite(s.T2) /\ DFinite(s.T2star)
        /\ DFinite(s.zeemanSplitting)
        /\ IsFinite(s.thermalExcitation) /\ IsFinite(s.noiseLevel)
        /\ DLe([m |-> 1000, e |-> -12], s.T1) /\ DLe(s.T1, DInt(100))
        /\ DLe([m |-> 1000, e |-> -12], s.T2)
        /\ DLe([m |-> 1000, e |-> -13], s.T2star) /\ DLe(s.T2star, s.T2)
        /\ 0 <= s.thermalExcitation /\ s.thermalExcitation <= SCALE
        /\ 0 <= s.noiseLevel /\ s.noiseLevel <= SCALE

\* getState() at 1 mK and 0.1 T, where T1 sits on its upper bound.
C14_Witness ==
    /\ last.op = "getState"
    /\ temperature = 1
    /\ Bfield = 10
    /\ T1 = DInt(100)
    /\ last.result.noiseLevel = 0

\* C15: getBlochAngles() returns theta = 0 on |0> (p1 = 0) and theta = pi
\* on |1> (alpha = 0; pi within the tolerance that the rounding of p1
\* leaves for an angle), and a phi in [0, 2 pi).
ThetaTol == 2 * ISqrt(NormTol) + 2
C15_BlochAngles ==
    LET angles == getBlochAngles(alpha, beta)
    IN  /\ getP1(beta) = 0 => angles.theta = 0
        /\ getP0(alpha) = 0
              => /\ angles.theta # NaN
                 /\ Abs(angles.theta - PI_FX) <= ThetaTol
        /\ angles.phi # NaN /\ 0 <= angles.phi /\ angles.phi < TWO_PI

\* C16: a rotation gate called with an angle theta, 0 included, rotates by
\* the half-angle theta / 2, and pi / 2 is used only when the parameter is
\* omitted: Rx(0), Ry(0) and Rz(0) leave alpha and beta unchanged and log
\* the parameter 0.
Rotated(g, t, a, b) ==
    LET m == IF g = "Rx" THEN GateRx(t, a, b)
             ELSE IF g = "Ry" THEN GateRy(t, a, b)
             ELSE GateRz(t, a, b)
    IN  normalize(m[1], m[2])
RotationBy(call, t) ==
    LET n == Rotated(call.args.gate, t, call.alpha, call.beta)
    IN  Close(alpha, n[1]) /\ Close(beta, n[2])
C16_RotationHalfAngle ==
    last.op = "applyGate" /\ last.args.gate \in Rotations
        => /\ IsFinite(last.args.param)
                 => RotationBy(last, RDiv(last.args.param, 2))
           /\ last.args.param = Undefined
                 => RotationBy(last, RDiv(HALF_PI, 2))
           /\ last.args.param = 0
                 => /\ Close(alpha, last.alpha)
                    /\ Close(beta, last.beta)
                    /\ LastEntry.param = 0

\* C19: no operation of the spin engine (evolve, applyDecoherence,
\* applyGate, measure, reset, setBField) changes the temperature, the field
\* or the derived time constants that the environment model stores.
SpinOps == {"evolve", "applyDecoherence", "applyGate", "measure", "reset",
            "clearGateLog", "setBField"}
C19_EngineLeavesEnvironment ==
    [][last'.op \in SpinOps => UNCHANGED decoVars]_vars

\* C20: the stored T1, T2, T2*, thermalExcitation and zeemanSplitting are
\* always those computed from the current temperature and field, after
\* every setter call in particular, and two getState() calls with no
\* setter call between them return equal values.
C20_DerivedFromCurrentPair ==
    /\ \E d \in {computePhysics(temperature, Bfield)} :
           /\ T1 = d.T1
           /\ T2 = d.T2
           /\ T2star = d.T2star
           /\ thermalExcitation = d.thermalExcitation
           /\ zeemanSplitting = d.zeemanSplitting
    /\ last.op = "getState" /\ prev.op = "getState"
           => last.result = prev.result

\* Two getState() calls in a row after the field was set to 3 T.
C20_Witness ==
    /\ last.op = "getState"
    /\ prev.op = "getState"
    /\ Bfield = 300
    /\ last.result.T1 # computePhysics(20, 100).T1

\* C17: one loop drives the state: evolve and then applyDecoherence in each
\* of its ticks, and a gate, a measurement or a reset runs only as a
\* request that this loop serves after applyDecoherence, never in a click
\* handler or a timer callback between two ticks.
Requests == {"applyGate", "measure", "reset"}
C17_SingleWriterPerTick ==
    /\ Cardinality(loops) <= 1
    /\ last.op = "applyDecoherence" => prev.op = "evolve"
    /\ last.op \in Requests => task \in AnimateLoops

\* C18: getStateVector() returns the alpha and the beta of the state the
\* last completed call left; no later engine call changes the object it
\* returned, and a reader's assignment to that object changes neither
\* alpha nor beta of the engine.
EngineOps == {"evolve", "applyDecoherence", "applyGate", "measure", "reset"}
C18_SnapshotIsACopy ==
    [][/\ last'.op = "getStateVector" /\ calls' # calls
            => sv'.alpha = alpha /\ sv'.beta = beta /\ sv' = last'.result
       /\ last'.op \in EngineOps /\ calls' # calls
            => sv'.alpha = sv.alpha /\ sv'.beta = sv.beta
       /\ calls' = calls => alpha' = alpha /\ beta' = beta]_vars

\* A reader has overwritten a field of the object it got after H, and a
\* gate has run since the object was returned.
C18_Witness ==
    /\ sv.defined
    /\ sv.alpha.re = 0
    /\ alpha.re # 0
    /\ prev.op = "getStateVector"
    /\ last.op = "applyGate"
    /\ sv.beta # beta

\* C21: whatever gate ids applyGate is called with, every entry of the gate
\* log has a gate id in {X, Y, Z, H, S, T, Rx, Ry, Rz, MEASURE}.
C21_GateIdsClosed ==
    \A i \in 1..Len(gateLog) : gateLog[i].gate \in GateIds \cup {"MEASURE"}

\* applyGate with an unknown id, called when the log held an entry and
\* leaving it.
C21_Witness ==
    /\ last.op = "applyGate"
    /\ last.args.gate \in UnknownGates
    /\ Len(last.log) > 0
    /\ gateLog = last.log

\* Two probabilities that each carry the rounding of a normalize().
Alike(p, q) == Abs(p - q) <= 2 * NormTol

\* C22: evolve(dt, false) leaves p0 and p1 unchanged and sets the Rabi
\* frequency to 0; evolve(dt, true) applies the rotation of the drive
\* first and sets the Rabi frequency to gamma * B1_max.
C22_DriveFlag ==
    /\ last.op = "evolve" /\ ~last.args.isPulsing
          => /\ Alike(getP0(alpha), cnorm2(last.alpha))
             /\ Alike(getP1(beta), cnorm2(last.beta))
             /\ rabiFreq = 0
    /\ last.op = "evolve" /\ last.args.isPulsing
          => \E n \in {Rotated("Rx",
                                HalfAngle(FreqOf(B1_max),
                                          SimDt(last.args.dt)),
                                last.alpha, last.beta)} :
                /\ Alike(getP0(alpha), cnorm2(n[1]))
                /\ Alike(getP1(beta), cnorm2(n[2]))
                /\ rabiFreq = FreqOf(B1_max)

\* A driven step that moved population, followed by an undriven one.
C22_Witness ==
    /\ last.op = "evolve" /\ ~last.args.isPulsing
    /\ prev.op = "evolve" /\ prev.args.isPulsing
    /\ ~Alike(cnorm2(last.beta), cnorm2(prev.beta))
    /\ alpha # last.alpha

\* C28: after any sequence of field inputs, the field Bz of the spin engine
\* is the field Bfield of the environment model, and the stored T1, T2 and
\* thermalExcitation are those of that field.
C28_FieldsAgree ==
    /\ Bz = Bfield
    /\ \E d \in {computePhysics(temperature, Bz)} :
           /\ T1 = d.T1
           /\ T2 = d.T2
           /\ thermalExcitation = d.thermalExcitation

\* The field set to 0.1 T after it had been set to another value.
C28_Witness ==
    /\ last.op = "setBField"
    /\ prev.op = "setBField"
    /\ prev.args.bz # last.args.bz
    /\ Bz = 10

\* C29: a measure() that follows a measure() with no call between them
\* returns the same result and leaves alpha and beta as they were.
C29_MeasureRepeatable ==
    last.op = "measure" /\ prev.op = "measure"
        => /\ last.result = prev.result
           /\ alpha = last.alpha
           /\ beta = last.beta

\* Two measurements of a superposition, the first returning 1 and the
\* second made with the smallest random number.
C29_Witness ==
    /\ last.op = "measure" /\ prev.op = "measure"
    /\ cnorm2(prev.alpha) > 0 /\ cnorm2(prev.beta) > 0
    /\ prev.result = 1
    /\ last.args.rand # prev.args.rand

\* C23: hold-to-pulse.  A press (mousedown, touchstart) on the pulse button
\* while it is not disabled makes getIsPulsing() true and pulseDuration 0; a
\* press while it is disabled starts nothing; a release (mouseup,
\* mouseleave, touchend) makes getIsPulsing() false; update(dt) adds dt to
\* pulseDuration while pulsing and nothing otherwise; no other event
\* changes either.
C23_HoldToPulse ==
    [][page'.loaded /\ page.loaded =>
          /\ page'.event \in Presses /\ ~page.disabled
                => page'.isPulsing /\ page'.pulseDuration = 0
          /\ page'.event \in Presses /\ page.disabled
                => /\ page'.isPulsing = page.isPulsing
                   /\ page'.pulseDuration = page.pulseDuration
          /\ page'.event \in Releases
                => /\ ~page'.isPulsing
                   /\ page'.pulseDuration = page.pulseDuration
          /\ page'.event = "update"
                => /\ page'.isPulsing = page.isPulsing
                   /\ page'.pulseDuration =
                          page.pulseDuration
                              + (IF page.isPulsing THEN page'.dt ELSE 0)
          /\ page'.event \notin Presses \cup Releases \cup {"update"}
                => /\ page'.isPulsing = page.isPulsing
                   /\ page'.pulseDuration = page.pulseDuration]_vars
C23_Witness ==
    /\ page.event = "update"
    /\ page.isPulsing
    /\ page.pulseDuration > 50

\* C26: the unlocked stage stays within 1..4 and never decreases; a tab
\* click (goTo) and unlock with a stage above 4 leave it as it is.
C26_StageMonotone ==
    [][/\ page'.currentStage \in 1..4
       /\ page'.currentStage >= page.currentStage
       /\ page'.event \in {"tab", "unlock"}
             => page'.currentStage = page.currentStage]_vars

\* C27: whatever the order of toggle clicks and of the settling of start(),
\* at most one camera is started and not stopped and at most one start is
\* pending, and isEnabled() is true only while a started camera exists.
C27_OneCamera ==
    /\ Cardinality(hand.started \cup hand.pending) <= 1
    /\ hand.enabled => hand.started # {}

\* C30: a temperature passed to onTemperatureChange is an integer within
\* [20, 4000] mK, a field passed to onBFieldChange is within [0.1, 3.0] T,
\* and a hand absent from the frame makes no callback for its parameter.
C30_GestureRanges ==
    /\ hand.onTemperatureChange # Null
          => /\ hand.onTemperatureChange % 100 = 0
             /\ hand.onTemperatureChange >= 2000
             /\ hand.onTemperatureChange <= 400000
             /\ temperature * 100 = hand.onTemperatureChange
    /\ hand.onBFieldChange # Null
          => /\ hand.onBFieldChange >= 10
             /\ hand.onBFieldChange <= 300
             /\ Bz = hand.onBFieldChange
    /\ hand.left = Null => hand.onTemperatureChange = Null
    /\ hand.right = Null => hand.onBFieldChange = Null
C30_Witness ==
    /\ hand.left # Null /\ hand.right = Null
    /\ hand.onTemperatureChange = 400000
    /\ hand.leftHandY > SCALE

\* C24: a frame that has begun completes its physics step, evolve followed
\* by applyDecoherence with the snapshot and the dt taken at the start of
\* the frame, whether or not Lattice.update, QuantumDot.update or
\* UI.updateReadouts throws; and the next frame stays requested.
C24_TickRunsPhysics ==
    /\ tick.requested
    /\ pc = "idle" => tick.steps = tick.frames
    /\ pc = "decohere"
          => /\ last.op = "evolve"
             /\ last.args.dt = tick.dt
             /\ tick.snapshot = getState
    /\ pc = "readouts"
          => /\ last.op = "applyDecoherence" /\ prev.op = "evolve"
             /\ last.args.decoState = tick.snapshot
             /\ last.args.dt = prev.args.dt
             /\ tick.snapshot = getState
C24_Witness ==
    /\ pc = "idle"
    /\ tick.frames = 1 /\ tick.steps = 1
    /\ tick.thrown = Throwers
    /\ last.op = "applyDecoherence"
    /\ temperature = 500

\* The gates of a gate log or of a list of timers, in order.
GatesOf(entries) == [i \in 1..Len(entries) |-> entries[i].gate]
\* Some timer of the generation g is waiting.
Waiting(g) == \E i \in 1..Len(run.timers) : run.timers[i].generation = g

\* C25: runCircuit leaves |0> and an empty gate log; a gate callback is
\* applied only while the reset that preceded its scheduling is the latest
\* one; and once the last timer of a run has fired the gate log holds the
\* recognised gates of that run, in the order of the text.
C25_RunCircuitOwnsLog ==
    /\ last.op = "runCircuit"
          => alpha = KET0 /\ beta = ZERO /\ gateLog = <<>>
    /\ last.op \in {"applyGate", "measure"}
          => /\ run.fired = run.generation
             /\ ~Waiting(run.generation) /\ run.circuit # <<>>
                   => GatesOf(gateLog) = GatesOf(run.circuit)

=============================================================================
